---- MODULE Spec2Model ----
(***************************************************************************)
(* Model of src/src/data_cleaning.py: the sales-data cleaning pipeline.    *)
(*                                                                         *)
(* A DataFrame is a record                                                 *)
(*     [columns |-> sequence of column names,                              *)
(*      index   |-> sequence of row labels,                                *)
(*      data    |-> sequence of rows, a row being a sequence of cells      *)
(*                  aligned with columns]                                  *)
(* A string is a sequence of one-character strings.  A cell is a record    *)
(* [t, n, s]: t = "str" (text s), "num" (number n), "date" (Timestamp,     *)
(* n its day ordinal) or "nan" (NaN / NaT / None).                         *)
(***************************************************************************)
EXTENDS Integers, Sequences, FiniteSets, TLC

VARIABLES
    pc,            \* position of the running script / of the direct call
    df,            \* the DataFrame the script holds (the call's result)
    arg,           \* the DataFrame handed to the most recent call
    out,           \* what has been printed, one tag per message
    raw_file,      \* the file at raw_path
    cleaned_file   \* the file at cleaned_path

vars == <<pc, df, arg, out, raw_file, cleaned_file>>

(***************************************************************************)
(* Bounds of the model.                                                    *)
(***************************************************************************)
MaxRows == 2       \* rows of a raw table
MaxStrLen == 4     \* characters of an enumerated raw name or text value

(***************************************************************************)
(* Characters and Python's str methods.                                    *)
(***************************************************************************)
LowerLetters == <<"a","b","c","d","e","f","g","h","i","j","k","l","m",
                  "n","o","p","q","r","s","t","u","v","w","x","y","z">>
UpperLetters == <<"A","B","C","D","E","F","G","H","I","J","K","L","M",
                  "N","O","P","Q","R","S","T","U","V","W","X","Y","Z">>
Digits == <<"0","1","2","3","4","5","6","7","8","9">>

\* The characters of the model in code-point order (what < on str compares).
CharOrder == <<"\t", " ", "\"", "-", "/">> \o Digits \o UpperLetters
                 \o <<"_">> \o LowerLetters

Range(f) == {f[i] : i \in DOMAIN f}

Pos(seq, x) == CHOOSE i \in DOMAIN seq : seq[i] = x

Ord(c) == Pos(CharOrder, c)

\* str.isspace() on one character
IsSpace(c) == c \in {" ", "\t"}

IsUpper(c) == c \in Range(UpperLetters)

IsLower(c) == c \in Range(LowerLetters)

\* a cased character, as str.title() sees it
IsCased(c) == IsUpper(c) \/ IsLower(c)

char_lower(c) == IF IsUpper(c) THEN LowerLetters[Pos(UpperLetters, c)] ELSE c

char_upper(c) == IF IsLower(c) THEN UpperLetters[Pos(LowerLetters, c)] ELSE c

RECURSIVE str_lstrip(_)
str_lstrip(s) ==
    IF s = <<>> \/ ~IsSpace(Head(s)) THEN s ELSE str_lstrip(Tail(s))

RECURSIVE str_rstrip(_)
str_rstrip(s) ==
    IF s = <<>> \/ ~IsSpace(s[Len(s)]) THEN s
    ELSE str_rstrip(SubSeq(s, 1, Len(s) - 1))

\* .str.strip()
str_strip(s) == str_rstrip(str_lstrip(s))

\* .str.lower()
str_lower(s) == [i \in DOMAIN s |-> char_lower(s[i])]

\* .str.replace(' ', '_'): every occurrence of the one-character pattern
str_replace_space(s) == [i \in DOMAIN s |-> IF s[i] = " " THEN "_" ELSE s[i]]

NotQuote(c) == c # "\""

\* .str.replace('"', '')
str_remove_quotes(s) == SelectSeq(s, NotQuote)

\* .str.replace(r'\s+', ' ', regex=True)
RECURSIVE str_collapse_ws(_)
str_collapse_ws(s) ==
    IF s = <<>> THEN <<>>
    ELSE IF IsSpace(Head(s)) THEN <<" ">> \o str_collapse_ws(str_lstrip(s))
    ELSE <<Head(s)>> \o str_collapse_ws(Tail(s))

\* .str.title(): a cased character is upper-cased when it starts a word
\* (follows an uncased character) and lower-cased otherwise
str_title(s) ==
    [i \in DOMAIN s |->
        IF i > 1 /\ IsCased(s[i - 1]) THEN char_lower(s[i]) ELSE char_upper(s[i])]

(***************************************************************************)
(* Cells.                                                                  *)
(***************************************************************************)
Str(s) == [t |-> "str", n |-> 0, s |-> s]

Num(n) == [t |-> "num", n |-> n, s |-> <<>>]

Date(n) == [t |-> "date", n |-> n, s |-> <<>>]

NaN == [t |-> "nan", n |-> 0, s |-> <<>>]

\* pd.isna on one cell
isna(c) == c.t = "nan"

IsPositive(c) == c.t = "num" /\ c.n > 0

IsNonNegative(c) == c.t = "num" /\ c.n >= 0

IsDigit(c) == c \in Range(Digits)

DigitVal(c) == Pos(Digits, c) - 1

AllDigits(s) == s # <<>> /\ \A i \in DOMAIN s : IsDigit(s[i])

RECURSIVE ParseNat(_)
ParseNat(s) ==
    IF s = <<>> THEN 0
    ELSE 10 * ParseNat(SubSeq(s, 1, Len(s) - 1)) + DigitVal(s[Len(s)])

RECURSIVE NatStr(_)
NatStr(n) ==
    IF n < 10 THEN <<Digits[n + 1]>> ELSE NatStr(n \div 10) \o <<Digits[(n % 10) + 1]>>

\* str(x) of one cell, as .astype(str) applies it
astype_str(c) ==
    CASE c.t = "str" -> c.s
      [] c.t = "nan" -> <<"n", "a", "n">>
      [] c.t = "num" -> IF c.n < 0 THEN <<"-">> \o NatStr(-c.n) ELSE NatStr(c.n)
      [] OTHER -> NatStr(c.n)

\* pd.to_numeric(..., errors='coerce') on one cell: an optionally signed
\* run of digits is its number, any other text is NaN
to_numeric(c) ==
    CASE c.t = "num" -> c
      [] c.t = "str" ->
           IF AllDigits(c.s) THEN Num(ParseNat(c.s))
           ELSE IF c.s # <<>> /\ Head(c.s) = "-" /\ AllDigits(Tail(c.s))
                THEN Num(-ParseNat(Tail(c.s)))
           ELSE NaN
      [] OTHER -> NaN

\* pd.to_datetime(..., errors='coerce') on one cell: text YYYY-MM-DD with a
\* month 1..12 and a day 1..31 is that day, any other text is NaT.  The day
\* ordinal orders dates as the calendar does.
to_datetime(c) ==
    CASE c.t = "date" -> c
      [] c.t = "str" ->
           LET s == c.s
               y == ParseNat(SubSeq(s, 1, 4))
               m == ParseNat(SubSeq(s, 6, 7))
               d == ParseNat(SubSeq(s, 9, 10))
           IN  IF /\ Len(s) = 10
                  /\ s[5] = "-" /\ s[8] = "-"
                  /\ AllDigits(SubSeq(s, 1, 4))
                  /\ AllDigits(SubSeq(s, 6, 7))
                  /\ AllDigits(SubSeq(s, 9, 10))
                  /\ m \in 1..12 /\ d \in 1..31
               THEN Date((y * 12 + (m - 1)) * 31 + d)
               ELSE NaN
      [] OTHER -> NaN

(***************************************************************************)
(* DataFrames.                                                             *)
(***************************************************************************)
PRODNAME == <<"p","r","o","d","n","a","m","e">>
CATEGORY == <<"c","a","t","e","g","o","r","y">>
PRICE == <<"p","r","i","c","e">>
QTY == <<"q","t","y">>
DATE_SOLD == <<"d","a","t","e","_","s","o","l","d">>

\* pd.DataFrame()
EmptyFrame == [columns |-> <<>>, index |-> <<>>, data |-> <<>>]

\* a test that no frame passes, as "df is None" would be
empty_never(d) == FALSE

\* df.empty
empty(d) == Len(d.columns) = 0 \/ Len(d.data) = 0

\* col in df.columns
HasCol(d, name) == \E i \in DOMAIN d.columns : d.columns[i] = name

ColPos(d, name) == Pos(d.columns, name)

\* df[name] as a sequence of cells in row order
Column(d, name) == [r \in DOMAIN d.data |-> d.data[r][ColPos(d, name)]]

\* df[name] = values / df.loc[:, name] = values, for an existing column
SetColumn(d, name, values) ==
    [d EXCEPT !.data = [r \in DOMAIN @ |->
                          [@[r] EXCEPT ![ColPos(d, name)] = values[r]]]]

\* clean_column_names without .str.lower()
clean_column_names_no_lower(d) ==
    [d EXCEPT !.columns = [i \in DOMAIN @ |-> str_replace_space(str_strip(@[i]))]]

\* --- Function 2 ---
clean_column_names(d) ==
    [d EXCEPT !.columns =
        [i \in DOMAIN @ |-> str_replace_space(str_lower(str_strip(@[i])))]]

clean_text_value(c) ==
    Str(str_title(str_collapse_ws(str_remove_quotes(str_strip(astype_str(c))))))

clean_text_column(d, col) ==
    IF HasCol(d, col)
    THEN SetColumn(d, col, [r \in DOMAIN d.data |-> clean_text_value(Column(d, col)[r])])
    ELSE d

\* --- Function 4 ---
clean_text_columns(d) == clean_text_column(clean_text_column(d, PRODNAME), CATEGORY)


(***************************************************************************)
(* Function 3: handle_missing_and_invalid.                                 *)
(***************************************************************************)
RECURSIVE Insert(_, _)
Insert(x, s) ==
    IF s = <<>> \/ x <= Head(s) THEN <<x>> \o s
    ELSE <<Head(s)>> \o Insert(x, Tail(s))

RECURSIVE SortInts(_)
SortInts(s) == IF s = <<>> THEN <<>> ELSE Insert(Head(s), SortInts(Tail(s)))

NotNa(c) == ~isna(c)

\* Series.dropna() as the sequence of the remaining numbers
NonMissing(col) == [i \in DOMAIN SelectSeq(col, NotNa) |-> SelectSeq(col, NotNa)[i].n]

\* Series.median(): NaN over no values, the middle value of an odd count,
\* the mean of the two middle values of an even count.  The raw prices of
\* the model are even numbers, so that this mean is a whole number.
median(col) ==
    LET v == SortInts(NonMissing(col))
        k == Len(v)
    IN  IF k = 0 THEN NaN
        ELSE IF k % 2 = 1 THEN Num(v[(k + 1) \div 2])
        ELSE Num((v[k \div 2] + v[k \div 2 + 1]) \div 2)

\* Series.fillna(value)
fillna(col, value) == [i \in DOMAIN col |-> IF isna(col[i]) THEN value ELSE col[i]]

\* df.loc[df['price'] <= 0, 'price'] = median_price   (NaN <= 0 is False)
clamp_price(col, median_price) ==
    [i \in DOMAIN col |->
        IF col[i].t = "num" /\ col[i].n <= 0 THEN median_price ELSE col[i]]

\* Series.abs()
abs(col) ==
    [i \in DOMAIN col |->
        IF col[i].t = "num" /\ col[i].n < 0 THEN Num(-col[i].n) ELSE col[i]]

\* no forward fill: missing dates stay missing
ffill_none(col) == col

\* Series.ffill(): a missing value takes the last value seen before it
RECURSIVE ffill(_)
ffill(col) ==
    IF col = <<>> THEN <<>>
    ELSE LET init == ffill(SubSeq(col, 1, Len(col) - 1))
             last == col[Len(col)]
         IN  IF isna(last) /\ init # <<>>
             THEN Append(init, init[Len(init)])
             ELSE Append(init, last)

\* df.dropna(subset=[name]): the rows keep their labels
dropna(d, name) ==
    LET keep == SelectSeq([r \in DOMAIN d.data |-> r],
                          LAMBDA r : ~isna(d.data[r][ColPos(d, name)]))
    IN  [d EXCEPT !.index = [i \in DOMAIN keep |-> d.index[keep[i]]],
                  !.data = [i \in DOMAIN keep |-> d.data[keep[i]]]]

\* df[name] raises KeyError for an absent column
handle_missing_and_invalid_raises(d) ==
    ~(HasCol(d, PRICE) /\ HasCol(d, QTY) /\ HasCol(d, DATE_SOLD))

\* the median taken over the prices > 0 only
median_price_positive(d) ==
    median([r \in DOMAIN d.data |->
              IF IsPositive(to_numeric(Column(d, PRICE)[r]))
              THEN to_numeric(Column(d, PRICE)[r]) ELSE NaN])

median_price(d) == median([r \in DOMAIN d.data |-> to_numeric(Column(d, PRICE)[r])])

sanitize_price(d) ==
    LET price == [r \in DOMAIN d.data |-> to_numeric(Column(d, PRICE)[r])]
    IN  SetColumn(d, PRICE, clamp_price(fillna(price, median_price(d)), median_price(d)))

sanitize_qty(d) ==
    LET qty == [r \in DOMAIN d.data |-> to_numeric(Column(d, QTY)[r])]
    IN  SetColumn(d, QTY, abs(fillna(qty, Num(1))))

sanitize_date(d) ==
    LET date_sold == [r \in DOMAIN d.data |-> to_datetime(Column(d, DATE_SOLD)[r])]
    IN  dropna(SetColumn(d, DATE_SOLD, ffill(date_sold)), DATE_SOLD)

handle_missing_and_invalid(d) == sanitize_date(sanitize_qty(sanitize_price(d)))

(***************************************************************************)
(* Function 5: remove_duplicates.                                          *)
(***************************************************************************)
RECURSIVE StrLT(_, _)
StrLT(a, b) ==
    IF b = <<>> THEN FALSE
    ELSE IF a = <<>> THEN TRUE
    ELSE IF Head(a) # Head(b) THEN Ord(Head(a)) < Ord(Head(b))
    ELSE StrLT(Tail(a), Tail(b))

\* < on the values of one column
CellLT(a, b) == IF a.t = "str" THEN StrLT(a.s, b.s) ELSE a.n < b.n

RECURSIVE KeyLT(_, _)
KeyLT(k1, k2) ==
    IF k1 = <<>> THEN FALSE
    ELSE IF Head(k1) # Head(k2) THEN CellLT(Head(k1), Head(k2))
    ELSE KeyLT(Tail(k1), Tail(k2))

GroupColumns == <<PRODNAME, CATEGORY, PRICE, DATE_SOLD>>

\* the grouping key of row r
KeyOf(d, r) == [i \in DOMAIN GroupColumns |-> d.data[r][ColPos(d, GroupColumns[i])]]

\* groupby(..., dropna=True), the default: a row with a missing value in a
\* grouping column belongs to no group
Grouped(d, r) == \A i \in DOMAIN GroupColumns : ~isna(KeyOf(d, r)[i])

GroupKeys(d) == {KeyOf(d, r) : r \in {x \in DOMAIN d.data : Grouped(d, x)}}

\* groupby(..., sort=True), the default: the groups in key order
RECURSIVE SortKeys(_)
SortKeys(S) ==
    IF S = {} THEN <<>>
    ELSE LET m == CHOOSE x \in S : \A y \in S \ {x} : KeyLT(x, y)
         IN  <<m>> \o SortKeys(S \ {m})

\* ['qty'].sum() of one group (sum skips missing values)
RECURSIVE GroupSum(_, _, _)
GroupSum(d, key, r) ==
    IF r = 0 THEN 0
    ELSE GroupSum(d, key, r - 1)
         + (IF Grouped(d, r) /\ KeyOf(d, r) = key /\ ~isna(d.data[r][ColPos(d, QTY)])
            THEN d.data[r][ColPos(d, QTY)].n ELSE 0)

remove_duplicates_raises(d) ==
    ~(\A i \in DOMAIN GroupColumns : HasCol(d, GroupColumns[i])) \/ ~HasCol(d, QTY)

remove_duplicates(d) ==
    LET keys == SortKeys(GroupKeys(d))
    IN  [columns |-> Append(GroupColumns, QTY),
         index |-> [i \in DOMAIN keys |-> i - 1],
         data |-> [i \in DOMAIN keys |->
                     Append(keys[i], Num(GroupSum(d, keys[i], Len(d.data))))]]

\* removed_duplicates = initial_rows - len(df_group)
removed_duplicates(d) == Len(d.data) - Len(remove_duplicates(d).data)

(***************************************************************************)
(* Step 6: df.sort_values('date_sold', ascending=True)                     *)
(*           .reset_index(drop=True)                                       *)
(* sort_values is called with its default kind, 'quicksort', which does    *)
(* not keep the order of rows with equal dates: every arrangement of the   *)
(* rows in non-decreasing date order, missing dates last, is a possible    *)
(* result.                                                                 *)
(***************************************************************************)
\* the rows left in the order they came in
sort_values_unsorted(d) == {d}

DateLE(a, b) == isna(b) \/ (~isna(a) /\ a.n <= b.n)

sort_values_results(d) ==
    LET n == Len(d.data)
        col == Column(d, DATE_SOLD)
    IN  { [columns |-> d.columns,
           index |-> [i \in 1..n |-> d.index[p[i]]],
           data |-> [i \in 1..n |-> d.data[p[i]]]] :
          p \in {q \in Permutations(1..n) :
                   \A i, j \in 1..n : i < j => DateLE(col[q[i]], col[q[j]])} }

reset_index(d) == [d EXCEPT !.index = [i \in DOMAIN d.data |-> i - 1]]

sort_and_reindex_results(d) == {reset_index(x) : x \in sort_values_results(d)}


(***************************************************************************)
(* Printed messages: a tag and the numbers the message shows.              *)
(***************************************************************************)
Msg(tag, vals) == [tag |-> tag, vals |-> vals]

\* --- Function 1 ---
\* pd.read_csv: the table of a readable file; FileNotFoundError for an
\* absent one; another exception for one that cannot be read or parsed
load_data(file) ==
    CASE file.status = "ok" -> file.table
      [] file.status = "notfound" -> EmptyFrame
      [] OTHER -> EmptyFrame

load_data_prints(file) ==
    CASE file.status = "ok" ->
           <<Msg("Successfully loaded data", <<>>),
             Msg("Shape", <<Len(file.table.data), Len(file.table.columns)>>)>>
      [] file.status = "notfound" -> <<Msg("Error: File not found", <<>>)>>
      [] OTHER -> <<Msg("Error loading file", <<>>)>>

\* df.isnull().sum(): the missing cells of each column
null_counts(d) ==
    [c \in DOMAIN d.columns |->
        Cardinality({r \in DOMAIN d.data : isna(d.data[r][c])})]

\* df[['price', 'qty']] raises KeyError when one of them is absent
generate_validation_report_raises(d) == ~(HasCol(d, PRICE) /\ HasCol(d, QTY))

\* the count row of describe(); the other rows are not whole numbers and
\* are left out
describe_counts(d) ==
    <<Len(SelectSeq(Column(d, PRICE), NotNa)), Len(SelectSeq(Column(d, QTY), NotNa))>>

\* --- Additional Function ---  what the report prints, up to the statement
\* that raises when one does
generate_validation_report(d) ==
    <<Msg("=== DATA VALIDATION REPORT ===", <<>>),
      Msg("Total rows", <<Len(d.data)>>),
      Msg("Total columns", <<Len(d.columns)>>),
      Msg("Column names and data types", <<>>),
      Msg("Missing values per column", null_counts(d)),
      Msg("Basic statistics", <<>>)>>
    \o (IF generate_validation_report_raises(d) THEN <<>>
        ELSE <<Msg("describe", describe_counts(d))>>)

\* df.sample(5, ...) raises ValueError on fewer than SampleSize rows
SampleSize == 5

(***************************************************************************)
(* The raw tables of the model.                                            *)
(***************************************************************************)
RawHeader ==
    << <<"P","r","o","d","N","a","m","e">>,
       <<" ","C","a","t","e","g","o","r","y">>,
       <<"P","r","i","c","e"," ">>,
       <<"Q","T","Y">>,
       <<"D","a","t","e"," ","S","o","l","d">> >>

\* a header whose price column has another name
OtherHeader == [RawHeader EXCEPT ![3] = <<"U","n","i","t"," ","P","r","i","c","e">>]

RawProdnames == {Str(<<" ","a","B">>)}

RawCategories == {Str(<<"t">>)}

\* raw prices are even, see median
RawPrices == {NaN, Str(<<"-","4">>), Str(<<"0">>), Str(<<"6">>)}

RawQtys == {Str(<<"x">>), Str(<<"-","2">>)}

RawDates == {Str(<<"2","0","2","4","-","0","1","-","0","5">>),
             Str(<<"2","0","2","4","-","0","2","-","0","1">>),
             Str(<<"n","/","a">>)}

RawRows ==
    {<<p, c, pr, q, dt>> : p \in RawProdnames, c \in RawCategories,
                           pr \in RawPrices, q \in RawQtys, dt \in RawDates}

SeqsUpTo(S, n) == UNION {[1..k -> S] : k \in 0..n}

Frame(columns, rows) ==
    [columns |-> columns, index |-> [i \in DOMAIN rows |-> i - 1], data |-> rows]

RawTables ==
    {Frame(RawHeader, rows) : rows \in SeqsUpTo(RawRows, MaxRows)}
    \cup {Frame(OtherHeader, <<r>>) : r \in RawRows}

RawFiles ==
    {[status |-> "ok", table |-> t] : t \in RawTables}
    \cup {[status |-> s, table |-> EmptyFrame] : s \in {"notfound", "unreadable"}}

NoFile == [exists |-> FALSE, columns |-> <<>>, data |-> <<>>]

\* df.to_csv(cleaned_path, index=False): the header and the rows, no labels
to_csv(d) == [exists |-> TRUE, columns |-> d.columns, data |-> d.data]

(***************************************************************************)
(* The script (the __main__ block).                                        *)
(***************************************************************************)
Init ==
    /\ pc = "step1"
    /\ df = EmptyFrame
    /\ arg = EmptyFrame
    /\ out = <<>>
    /\ raw_file \in RawFiles
    /\ cleaned_file = NoFile

\* Step 1: df = load_data(raw_path)
LoadData ==
    /\ pc = "step1"
    /\ df' = load_data(raw_file)
    /\ out' = out \o load_data_prints(raw_file)
    /\ pc' = "guard"
    /\ UNCHANGED <<arg, raw_file, cleaned_file>>

\* if df.empty: print("No data loaded. Exiting..."); exit()
GuardEmpty ==
    /\ pc = "guard"
    /\ IF empty(df)
       THEN /\ out' = Append(out, Msg("No data loaded. Exiting...", <<>>))
            /\ pc' = "exited"
       ELSE /\ out' = Append(out, Msg("Initial data shape", <<Len(df.data), Len(df.columns)>>))
            /\ pc' = "step2"
    /\ UNCHANGED <<df, arg, raw_file, cleaned_file>>

\* Step 2: df = clean_column_names(df)
CleanColumnNames ==
    /\ pc = "step2"
    /\ arg' = df
    /\ df' = clean_column_names(df)
    /\ out' = Append(out, Msg("Column names cleaned", <<>>))
    /\ pc' = "step3"
    /\ UNCHANGED <<raw_file, cleaned_file>>

\* Step 3: df = clean_text_columns(df)
CleanTextColumns ==
    /\ pc = "step3"
    /\ arg' = df
    /\ df' = clean_text_columns(df)
    /\ out' = Append(out, Msg("Text columns cleaned", <<>>))
    /\ pc' = "step4"
    /\ UNCHANGED <<raw_file, cleaned_file>>

\* Step 4: df = handle_missing_and_invalid(df)
HandleMissingAndInvalid ==
    /\ pc = "step4"
    /\ arg' = df
    /\ IF handle_missing_and_invalid_raises(df)
       THEN /\ pc' = "raised"
            /\ UNCHANGED <<df, out>>
       ELSE /\ df' = handle_missing_and_invalid(df)
            /\ out' = out
                 \o (IF Len(df.data) > Len(handle_missing_and_invalid(df).data)
                     THEN <<Msg("Removed rows with missing date_sold",
                                <<Len(df.data) - Len(handle_missing_and_invalid(df).data)>>)>>
                     ELSE <<>>)
                 \o <<Msg("Missing and invalid values handled", <<>>)>>
            /\ pc' = "step5"
    /\ UNCHANGED <<raw_file, cleaned_file>>

\* Step 5: df = remove_duplicates(df)
RemoveDuplicates ==
    /\ pc = "step5"
    /\ arg' = df
    /\ IF remove_duplicates_raises(df)
       THEN /\ pc' = "raised"
            /\ UNCHANGED <<df, out>>
       ELSE /\ df' = remove_duplicates(df)
            /\ out' = Append(out, Msg("Removed duplicate rows by grouping",
                                      <<removed_duplicates(df)>>))
            /\ pc' = "step6"
    /\ UNCHANGED <<raw_file, cleaned_file>>

\* Step 6: df = df.sort_values('date_sold', ascending=True).reset_index(drop=True)
SortByDate ==
    /\ pc = "step6"
    /\ arg' = df
    /\ df' \in sort_and_reindex_results(df)
    /\ pc' = "step7"
    /\ UNCHANGED <<out, raw_file, cleaned_file>>

\* Step 7: generate_validation_report(df)
GenerateValidationReport ==
    /\ pc = "step7"
    /\ arg' = df
    /\ out' = out \o generate_validation_report(df)
    /\ pc' = IF generate_validation_report_raises(df) THEN "raised" ELSE "step8"
    /\ UNCHANGED <<df, raw_file, cleaned_file>>

\* Step 8: os.makedirs(...); df.to_csv(cleaned_path, index=False)
SaveCleaned ==
    /\ pc = "step8"
    /\ cleaned_file' = to_csv(df)
    /\ out' = Append(out, Msg("Cleaned data saved", <<>>))
    /\ pc' = "show"
    /\ UNCHANGED <<df, arg, raw_file>>

\* print(df.head()); print(df.sample(5, random_state=42))
ShowRows ==
    /\ pc = "show"
    /\ IF Len(df.data) < SampleSize
       THEN /\ out' = out \o <<Msg("Cleaning complete. First few rows", <<>>),
                               Msg("Sample of cleaned data", <<>>)>>
            /\ pc' = "raised"
       ELSE /\ out' = out \o <<Msg("Cleaning complete. First few rows", <<>>),
                               Msg("Sample of cleaned data", <<>>),
                               Msg("sample", <<SampleSize>>)>>
            /\ pc' = "done"
    /\ UNCHANGED <<df, arg, raw_file, cleaned_file>>

Next ==
    \/ LoadData
    \/ GuardEmpty
    \/ CleanColumnNames
    \/ CleanTextColumns
    \/ HandleMissingAndInvalid
    \/ RemoveDuplicates
    \/ SortByDate
    \/ GenerateValidationReport
    \/ SaveCleaned
    \/ ShowRows

Spec == Init /\ [][Next]_vars


(***************************************************************************)
(* Direct calls of one function on a DataFrame.                            *)
(***************************************************************************)
NameChars == {"a", "B", " ", "\t", "_"}

TextChars == {"a", "B", " ", "\t", "\""}

StringsOver(S) == UNION {[1..k -> S] : k \in 1..MaxStrLen}

\* two columns, the first with any name, and one row
InitNames ==
    /\ pc = "call"
    /\ df \in {Frame(<<name, RawHeader[5]>>, << <<Num(1), Num(2)>> >>) :
                 name \in StringsOver(NameChars)}
    /\ arg = EmptyFrame
    /\ out = <<>>
    /\ raw_file = [status |-> "notfound", table |-> EmptyFrame]
    /\ cleaned_file = NoFile

CallCleanColumnNames ==
    /\ pc = "call"
    /\ arg' = df
    /\ df' = clean_column_names(df)
    /\ out' = Append(out, Msg("Column names cleaned", <<>>))
    /\ pc' = "returned"
    /\ UNCHANGED <<raw_file, cleaned_file>>

NextNames == CallCleanColumnNames

SpecNames == InitNames /\ [][NextNames]_vars

\* a prodname column with one value of any kind, no category column
InitText ==
    /\ pc = "call"
    /\ df \in {Frame(<<PRODNAME, PRICE>>, << <<v, Num(2)>> >>) :
                 v \in {Str(s) : s \in StringsOver(TextChars)} \cup {NaN, Num(7)}}
    /\ arg = EmptyFrame
    /\ out = <<>>
    /\ raw_file = [status |-> "notfound", table |-> EmptyFrame]
    /\ cleaned_file = NoFile

\* clean_text_columns(df), and clean_text_columns of its result
CallCleanTextColumns ==
    /\ pc \in {"call", "returned"}
    /\ arg' = df
    /\ df' = clean_text_columns(df)
    /\ out' = Append(out, Msg("Text columns cleaned", <<>>))
    /\ pc' = IF pc = "call" THEN "returned" ELSE "returned2"
    /\ UNCHANGED <<raw_file, cleaned_file>>

NextText == CallCleanTextColumns

SpecText == InitText /\ [][NextText]_vars

RECURSIVE SubSeqs(_)
SubSeqs(s) ==
    IF s = <<>> THEN {<<>>}
    ELSE SubSeqs(Tail(s)) \cup {<<Head(s)>> \o x : x \in SubSeqs(Tail(s))}

ReportCells == {Num(2), NaN}

\* one or more of the five columns, no row or one row
InitReport ==
    /\ pc = "call"
    /\ df \in UNION {{Frame(cols, rows) :
                        rows \in SeqsUpTo([DOMAIN cols -> ReportCells], 1)} :
                     cols \in SubSeqs(Append(GroupColumns, QTY)) \ {<<>>}}
    /\ arg = EmptyFrame
    /\ out = <<>>
    /\ raw_file = [status |-> "notfound", table |-> EmptyFrame]
    /\ cleaned_file = NoFile

CallGenerateValidationReport ==
    /\ pc = "call"
    /\ arg' = df
    /\ out' = out \o generate_validation_report(df)
    /\ pc' = IF generate_validation_report_raises(df) THEN "raised" ELSE "returned"
    /\ UNCHANGED <<df, raw_file, cleaned_file>>

NextReport == CallGenerateValidationReport

SpecReport == InitReport /\ [][NextReport]_vars


(***************************************************************************)
(* Properties.                                                             *)
(***************************************************************************)
\* the row of the argument that carries label l
ArgRow(l) == CHOOSE i \in DOMAIN arg.index : arg.index[i] = l

Cell(d, r, name) == d.data[r][ColPos(d, name)]

\* C1: every row returned by handle_missing_and_invalid, and every row of
\* the written file, has a non-missing price > 0 and a non-missing qty >= 0.
C1_NumericInvariant ==
    /\ pc = "step5" =>
         \A r \in DOMAIN df.data :
            IsPositive(Cell(df, r, PRICE)) /\ IsNonNegative(Cell(df, r, QTY))
    /\ cleaned_file.exists =>
         \A r \in DOMAIN cleaned_file.data :
            /\ IsPositive(cleaned_file.data[r][Pos(cleaned_file.columns, PRICE)])
            /\ IsNonNegative(cleaned_file.data[r][Pos(cleaned_file.columns, QTY)])

\* the sum of the qty of the rows of d whose key is k
RECURSIVE QtyOfKey(_, _, _)
QtyOfKey(d, k, r) ==
    IF r = 0 THEN 0
    ELSE QtyOfKey(d, k, r - 1) + (IF KeyOf(d, r) = k THEN Cell(d, r, QTY).n ELSE 0)

\* C2: the output of remove_duplicates has exactly one row for each
\* identity key of its input, with the summed qty of that key's input rows,
\* and no two output rows share a key.
C2_OneRowPerKey ==
    pc = "step6" =>
      /\ \A r \in DOMAIN arg.data :
           \E k \in DOMAIN df.data :
              /\ KeyOf(df, k) = KeyOf(arg, r)
              /\ Cell(df, k, QTY) = Num(QtyOfKey(arg, KeyOf(arg, r), Len(arg.data)))
      /\ \A k1, k2 \in DOMAIN df.data : KeyOf(df, k1) = KeyOf(df, k2) => k1 = k2

\* what the claim takes clean_column_names to produce: the name trimmed
\* and lowercased, each run of spaces then replaced by one underscore
RECURSIVE CollapseSpaceRuns(_)
CollapseSpaceRuns(s) ==
    IF s = <<>> THEN <<>>
    ELSE IF Head(s) = " "
         THEN IF Len(s) > 1 /\ s[2] = " " THEN CollapseSpaceRuns(Tail(s))
              ELSE <<"_">> \o CollapseSpaceRuns(Tail(s))
    ELSE <<Head(s)>> \o CollapseSpaceRuns(Tail(s))

\* C3 as stated: every name becomes its trimmed, lowercased form with each
\* run of spaces replaced by a single underscore, and holds no whitespace;
\* the number and order of the columns are unchanged.
C3_RunsCollapsed ==
    pc = "returned" =>
      /\ Len(df.columns) = Len(arg.columns)
      /\ \A i \in DOMAIN df.columns :
           /\ df.columns[i] = CollapseSpaceRuns(str_lower(str_strip(arg.columns[i])))
           /\ \A j \in DOMAIN df.columns[i] : ~IsSpace(df.columns[i][j])

\* C3 amended: every name becomes its trimmed form with each upper-case
\* letter lowercased and each space replaced by one underscore (a run of k
\* spaces gives k underscores; other inner whitespace stays); the result
\* has no upper-case letter, no space and no leading or trailing
\* whitespace; the number and order of the columns and the rows are
\* unchanged.
C3_EachSpaceReplaced ==
    pc = "returned" =>
      /\ Len(df.columns) = Len(arg.columns)
      /\ df.data = arg.data /\ df.index = arg.index
      /\ \A i \in DOMAIN df.columns :
           LET trimmed == str_strip(arg.columns[i])
               name == df.columns[i]
           IN  /\ Len(name) = Len(trimmed)
               /\ \A j \in DOMAIN name :
                    /\ trimmed[j] = " " => name[j] = "_"
                    /\ IsUpper(trimmed[j]) => name[j] = char_lower(trimmed[j])
                    /\ ~IsUpper(trimmed[j]) /\ trimmed[j] # " " => name[j] = trimmed[j]
                    /\ ~IsUpper(name[j]) /\ name[j] # " "
               /\ name # <<>> => ~IsSpace(name[1]) /\ ~IsSpace(name[Len(name)])

\* a name with an upper-case letter and an inner run of two spaces went in
C3_Witness ==
    /\ pc = "returned"
    /\ \E j \in 1..(Len(arg.columns[1]) - 2) :
         /\ IsUpper(arg.columns[1][j])
         /\ arg.columns[1][j + 1] = " "
         /\ arg.columns[1][j + 2] = " "
         /\ j + 2 < Len(str_rstrip(arg.columns[1]))
    /\ df.columns[2] = DATE_SOLD

\* the coerced date of the argument's row i
ArgDate(i) == to_datetime(Cell(arg, i, DATE_SOLD))

Parseable(i) == ~isna(ArgDate(i))

\* C4: after the date stage a row is dropped exactly when neither it nor
\* any row before it has a parseable date; a surviving row carries its own
\* date when that parses and otherwise the date of the nearest preceding
\* row whose date parses; the surviving rows keep their order.
C4_ForwardFill ==
    pc = "step5" =>
      /\ \A i \in DOMAIN arg.data :
           (\E k \in DOMAIN df.index : df.index[k] = arg.index[i])
             <=> (\E j \in 1..i : Parseable(j))
      /\ \A k \in DOMAIN df.data :
           LET i == ArgRow(df.index[k])
               src == CHOOSE j \in 1..i :
                        Parseable(j) /\ \A m \in (j + 1)..i : ~Parseable(m)
           IN  /\ df.index[k] \in Range(arg.index)
               /\ Cell(df, k, DATE_SOLD).t = "date"
               /\ Cell(df, k, DATE_SOLD) = ArgDate(src)
      /\ \A k1, k2 \in DOMAIN df.index : k1 < k2 => df.index[k1] < df.index[k2]

\* a row with an unparseable date directly after a row with a parseable
\* one has survived with that row's date
C4_Witness ==
    /\ pc = "step5"
    /\ \E k \in DOMAIN df.data :
         LET i == ArgRow(df.index[k])
         IN  /\ i > 1
             /\ ~Parseable(i)
             /\ Parseable(i - 1)
             /\ Cell(df, k, DATE_SOLD) = ArgDate(i - 1)


SortedByDate(rows, datecol) ==
    \A i, j \in DOMAIN rows :
       i < j => /\ rows[i][datecol].t = "date"
                /\ rows[j][datecol].t = "date"
                /\ rows[i][datecol].n <= rows[j][datecol].n

\* the two frames hold the same rows, each as many times
SameRows(a, b) ==
    /\ Len(a.data) = Len(b.data)
    /\ \A x \in Range(a.data) \cup Range(b.data) :
         Cardinality({i \in DOMAIN a.data : a.data[i] = x})
           = Cardinality({i \in DOMAIN b.data : b.data[i] = x})

Reindexed(d) == \A i \in DOMAIN d.data : d.index[i] = i - 1

\* rows of equal date stand in df in the order they had in arg
TiesKeepOrder ==
    \A i, j \in DOMAIN df.data :
       (i < j /\ Cell(df, i, DATE_SOLD) = Cell(df, j, DATE_SOLD)) =>
          \E a, b \in DOMAIN arg.data :
             a < b /\ arg.data[a] = df.data[i] /\ arg.data[b] = df.data[j]

\* C5 amended: the sort returns the deduplicated rows, each once, in
\* non-decreasing date_sold order, labelled 0, 1, ... and with the columns
\* unchanged, and the written file holds exactly these rows in this order;
\* the order among rows of equal date_sold is not fixed.
C5_SortedOutput ==
    /\ pc = "step7" =>
         /\ SortedByDate(df.data, ColPos(df, DATE_SOLD))
         /\ SameRows(arg, df)
         /\ Reindexed(df)
         /\ df.columns = arg.columns
    /\ cleaned_file.exists =>
         /\ cleaned_file.columns = df.columns
         /\ cleaned_file.data = df.data
         /\ SortedByDate(cleaned_file.data, Pos(cleaned_file.columns, DATE_SOLD))
         /\ Reindexed(df)

\* C5 as stated: the above, and rows with equal date_sold keep the relative
\* order they had after deduplication.
C5_StableSort == C5_SortedOutput /\ (pc = "step7" => TiesKeepOrder)

\* the sort has moved a later-dated first row behind an earlier-dated one
C5_Witness ==
    /\ pc = "step7"
    /\ Len(arg.data) >= 2
    /\ Cell(arg, 1, DATE_SOLD).n > Cell(arg, 2, DATE_SOLD).n
    /\ df.data[1] = arg.data[2]

Printed(tag) == \E i \in DOMAIN out : out[i].tag = tag

StageTags ==
    <<"Column names cleaned", "Text columns cleaned",
      "Missing and invalid values handled", "Removed duplicate rows by grouping",
      "=== DATA VALIDATION REPORT ===", "Cleaned data saved">>

IsStageTag(m) == m.tag \in Range(StageTags)

\* the stage messages printed so far, in order
StagesPrinted == [i \in DOMAIN SelectSeq(out, IsStageTag) |-> SelectSeq(out, IsStageTag)[i].tag]

LoadFailed == raw_file.status # "ok"

C6_State ==
    /\ (LoadFailed /\ pc # "step1") =>
         /\ pc \in {"guard", "exited"}
         /\ Printed(IF raw_file.status = "notfound"
                    THEN "Error: File not found" ELSE "Error loading file")
         /\ StagesPrinted = <<>>
         /\ df = EmptyFrame
    /\ LoadFailed => ~cleaned_file.exists
    /\ cleaned_file.exists =>
         /\ StagesPrinted = StageTags
         /\ SortedByDate(cleaned_file.data, Pos(cleaned_file.columns, DATE_SOLD))
    /\ ~cleaned_file.exists => cleaned_file = NoFile

C6_Step ==
    /\ cleaned_file' # cleaned_file =>
         /\ ~cleaned_file.exists
         /\ pc = "step8"
         /\ SelectSeq(StageTags, LAMBDA t : t # "Cleaned data saved") = StagesPrinted
    /\ StagesPrinted' # StagesPrinted =>
         /\ Len(StagesPrinted') = Len(StagesPrinted) + 1
         /\ StagesPrinted' = SubSeq(StageTags, 1, Len(StagesPrinted'))
    /\ (pc = "step6" /\ pc' # pc) => Len(StagesPrinted) = 4
    /\ (pc = "step1" /\ LoadFailed) => pc' \in {"step1", "guard"}
    /\ (pc = "guard" /\ LoadFailed) => pc' \in {"guard", "exited"}
    /\ pc \in {"exited", "raised", "done"} => UNCHANGED vars

\* C6: when load_data fails the failure is printed, no cleaning stage runs
\* and no file is ever written; a file is written at most once, and only
\* after column cleaning, text cleaning, numeric and date handling,
\* deduplication and sorting (and the report) have completed in that order.
C6_AllOrNothing == []C6_State /\ [][C6_Step]_vars

\* the script has exited on a missing raw file
C6_Witness ==
    /\ pc = "exited"
    /\ raw_file.status = "notfound"
    /\ Printed("Error: File not found")
    /\ Printed("No data loaded. Exiting...")


\* C7: generate_validation_report leaves the DataFrame as it was and never
\* raises: it prints the row count, the column count, the types and the
\* missing-value counts, and without a price or qty column it leaves the
\* statistics out.
C7_ReportNeverRaises ==
    pc # "call" =>
      /\ pc = "returned"
      /\ df = arg
      /\ Printed("Total rows") /\ Printed("Total columns")
      /\ Printed("Column names and data types")
      /\ Printed("Missing values per column")
      /\ Printed("describe") <=> (HasCol(arg, PRICE) /\ HasCol(arg, QTY))

\* the coerced price of the argument's row i
ArgPrice(i) == to_numeric(Cell(arg, i, PRICE))

\* C8: with M the median of the non-missing coerced prices of the input
\* (values <= 0 included, taken before any fill), every returned row whose
\* coerced price was missing or <= 0 has price M, and every returned row
\* whose coerced price was > 0 has that price.
C8_OneMedian ==
    pc = "step5" =>
      LET M == median([i \in DOMAIN arg.data |-> ArgPrice(i)])
      IN  \A k \in DOMAIN df.data :
             LET was == ArgPrice(ArgRow(df.index[k]))
             IN  /\ (isna(was) \/ was.n <= 0) => Cell(df, k, PRICE) = M
                 /\ IsPositive(was) => Cell(df, k, PRICE) = was

\* a row with a price <= 0 and a row with a price > 0 have both been
\* returned, the first with the median, which is neither of the two prices
C8_Witness ==
    /\ pc = "step5"
    /\ \E k1, k2 \in DOMAIN df.data :
         LET was1 == ArgPrice(ArgRow(df.index[k1]))
             was2 == ArgPrice(ArgRow(df.index[k2]))
         IN  /\ was1.t = "num" /\ was1.n <= 0
             /\ IsPositive(was2)
             /\ Cell(df, k1, PRICE).t = "num"
             /\ Cell(df, k1, PRICE) \notin {was1, was2}
             /\ Cell(df, k2, PRICE) = was2

\* no double quote, no outer whitespace, no two adjacent whitespace
\* characters
NormalForm(s) ==
    /\ \A i \in DOMAIN s : s[i] # "\""
    /\ s # <<>> => ~IsSpace(s[1]) /\ ~IsSpace(s[Len(s)])
    /\ \A i \in 1..(Len(s) - 1) : ~(IsSpace(s[i]) /\ IsSpace(s[i + 1]))

\* C9: every value clean_text_columns returns is text in normal form, and
\* clean_text_columns of its own result changes nothing.
C9_NormalFormIdempotent ==
    /\ pc \in {"returned", "returned2"} =>
         \A r \in DOMAIN df.data :
            Cell(df, r, PRODNAME).t = "str" /\ NormalForm(Cell(df, r, PRODNAME).s)
    /\ pc = "returned2" => df = arg

RECURSIVE QtyTotal(_, _)
QtyTotal(d, r) ==
    IF r = 0 THEN 0 ELSE QtyTotal(d, r - 1) + Cell(d, r, QTY).n

\* C10: remove_duplicates keeps the total qty, keeps every identity key of
\* its input, and reports input rows minus output rows as removed.
C10_NothingLost ==
    pc = "step6" =>
      /\ QtyTotal(df, Len(df.data)) = QtyTotal(arg, Len(arg.data))
      /\ \A r \in DOMAIN arg.data : \E k \in DOMAIN df.data : KeyOf(df, k) = KeyOf(arg, r)
      /\ out[Len(out)] = Msg("Removed duplicate rows by grouping",
                             <<Len(arg.data) - Len(df.data)>>)

====
